---- MODULE Spec2Model ----
(***************************************************************************)
(* Model of the two version resolvers of asof.py:                          *)
(*   get_pypi  (src/asof/pypi.py)   and   get_conda (src/asof/conda.py).   *)
(*                                                                         *)
(* One behaviour is one call of one resolver.  The grouping pass and the   *)
(* sort are one step, the walk over the groups is one step per record,     *)
(* and every return statement is the end of a step.                        *)
(*                                                                         *)
(* Versions.  A packaging.version.Version is modelled by its release       *)
(* number and its phase:                                                   *)
(*   "rc0"     X.0rc0        (what the text "X.0-c" parses to)             *)
(*   "rc1"     X.0rc1                                                      *)
(*   "rc1post" X.0rc1.post1  (what the text "X.0rc1-1" parses to)          *)
(*   "final"   X.0                                                         *)
(*   "post1"   X.0.post1     (what the text "X.0-1" parses to)             *)
(* ordered as PEP 440 orders them.  Publishers release rc1 and final       *)
(* versions only; the other phases arise from VERSION_PATTERN.search on a  *)
(* wheel's filename.                                                       *)
(*                                                                         *)
(* Times are integer instants on one UTC time line.                        *)
(***************************************************************************)
EXTENDS Integers, Sequences, FiniteSets, TLC

\* ---------------------------------------------------------------- bounds
\* the longest record list a registry returns
MaxLen == 2

\* the release numbers publishers use: versions 1.0 and 2.0 and their rc1
Rels == {1, 2}

\* the instants at which records are published and calls are made
Times == {0, 1}

\* ------------------------------------------------------------ versions
None == [none |-> TRUE]

Phases == {"rc0", "rc1", "rc1post", "final", "post1"}

PhaseOrd(ph) ==
  CASE ph = "rc0" -> 0
    [] ph = "rc1" -> 1
    [] ph = "rc1post" -> 2
    [] ph = "final" -> 3
    [] ph = "post1" -> 4

V(r, ph) == [rel |-> r, ph |-> ph]

\* Version.__lt__ / the sort key of sorted(..., key=Version)
Rank(v) == v.rel * 5 + PhaseOrd(v.ph)

VersionLess(a, b) == Rank(a) < Rank(b)

\* Version.is_prerelease: the version has a pre (or dev) segment
is_prerelease(v) == v.ph \in {"rc0", "rc1", "rc1post"}

\* the versions publishers release
ReleasedVersions == {V(r, ph) : r \in Rels, ph \in {"rc1", "final"}}

\* ------------------------------------------------------ PyPI file records
\* packages: "foo" has no digit in its name, "py4j" has one
Packages == {"foo", "py4j"}

NameHasDigit(package) == package = "py4j"

\* runtime tags, packaging.tags.sys_tags() of a CPython 3.9 interpreter
sys_tags == <<"cp39", "py3">>

\* Filenames <package>-<ver>.tar.gz, <package>-<ver>[-1]-<tag>-....whl,
\* <package>-<ver>.win32.exe (an obsolete installer, of a final version) and
\* <package>-not-a-version.tar.gz
Sdist(v) == [ext |-> "tar.gz", ver |-> v, build |-> FALSE, tag |-> "none"]
Wheel(v, b, t) == [ext |-> "whl", ver |-> v, build |-> b, tag |-> t]
Exe(v) == [ext |-> "exe", ver |-> v, build |-> FALSE, tag |-> "none"]
NotAVersion == [ext |-> "tar.gz", ver |-> None, build |-> FALSE, tag |-> "none"]

Filenames ==
  {Sdist(v) : v \in ReleasedVersions}
    \cup {Wheel(v, FALSE, t) : v \in ReleasedVersions, t \in {"cp39", "pp39"}}
    \cup {Wheel(v, TRUE, "cp39") : v \in ReleasedVersions}
    \cup {Exe(V(r, "final")) : r \in Rels}
    \cup {NotAVersion}

PypiFiles ==
  {[filename |-> f, yanked |-> y, upload_time |-> t] :
     f \in Filenames, y \in BOOLEAN, t \in Times}

\* VERSION_PATTERN.search(filename).group(0), as the Version its text denotes;
\* None when the pattern matches nowhere.  The search returns the FIRST match:
\*   - a digit of the package name ("py4j-1.0.tar.gz" -> "4");
\*   - "X.0-1" for a wheel with build tag 1 (the post-release spelling "-N");
\*   - "X.0-c" for a final version followed by "-cp39" (pre-release letter c);
\*   - the version text itself otherwise.
VersionSearch(package, f) ==
  IF NameHasDigit(package) THEN V(4, "final")
  ELSE IF f.ver = None THEN None
  ELSE IF f.ext = "whl" /\ f.build
    THEN (IF f.ver.ph = "final" THEN V(f.ver.rel, "post1")
          ELSE V(f.ver.rel, "rc1post"))
  ELSE IF f.ext = "whl" /\ f.tag = "cp39" /\ f.ver.ph = "final"
    THEN V(f.ver.rel, "rc0")
  ELSE f.ver

\* parse_sdist_filename: the version, or None for InvalidSdistFilename
parse_sdist_filename(f) ==
  IF f.ext = "tar.gz" /\ f.ver # None THEN f.ver ELSE None

\* parse_wheel_filename: the version, or None for InvalidWheelFilename
parse_wheel_filename(f) ==
  IF f.ext = "whl" /\ f.ver # None THEN f.ver ELSE None

\* the tag set parse_wheel_filename returns: a compressed tag text such as
\* "py2.py3" stands for one tag per interpreter
WheelTags(t) ==
  CASE t = "py2.py3" -> {"py2", "py3"}
    [] t = "py2.pp39" -> {"py2", "pp39"}
    [] t = "none" -> {}
    [] OTHER -> {t}

TagSupported_always(tags, f) == TRUE

\* lines 97-99: some tag of the runtime's sequence tags is a tag of the wheel
TagSupported(tags, f) == \E i \in 1..Len(tags) : tags[i] \in WheelTags(f.tag)

\* is_compatible on a runtime whose sys_tags() yields the sequence tags
IsCompatibleOn(tags, f) ==
  IF parse_sdist_filename(f) # None THEN parse_sdist_filename(f)
  ELSE IF parse_wheel_filename(f) # None
    THEN (IF TagSupported(tags, f) THEN parse_wheel_filename(f) ELSE None)
  ELSE None

is_compatible(f) == IsCompatibleOn(sys_tags, f)

\* the filenames and runtimes is_compatible is examined on by itself: every
\* extension with every version text, wheels with and without a build tag
\* and with one or two tags; CPython 3.9, PyPy 3.9 and a Python 2 runtime
TagTexts == {"cp39", "pp39", "py3", "py2.py3", "py2.pp39"}

CompatFilenames ==
  {[ext |-> e, ver |-> v, build |-> FALSE, tag |-> "none"] :
       e \in {"tar.gz", "exe"}, v \in ReleasedVersions \cup {None}}
    \cup {[ext |-> "whl", ver |-> v, build |-> b, tag |-> t] :
       v \in ReleasedVersions \cup {None}, b \in BOOLEAN, t \in TagTexts}

Runtimes == {sys_tags, <<"pp39", "py3">>, <<"py2">>}

\* ----------------------------------------------------- conda file records
\* version texts: "X.0", "X.0rc1", "X.0g" (junk |-> TRUE: a valid prefix
\* followed by a letter, as in openssl 1.1.1g) and "custom" (ver |-> None)
CondaVersionTexts ==
  {[ver |-> v, junk |-> FALSE] : v \in ReleasedVersions}
    \cup {[ver |-> V(r, "final"), junk |-> TRUE] : r \in Rels}
    \cup {[ver |-> None, junk |-> FALSE]}

\* the "timestamp" field: <<t>> when present, <<>> when the record has none
CondaFiles ==
  {[version |-> s, timestamp |-> t, channel |-> "conda-forge"] :
     s \in CondaVersionTexts, t \in {<<x>> : x \in Times} \cup {<<>>}}

\* version_pattern.match(text).group(0): the longest valid prefix, or None
VersionMatch(s) == s.ver

\* Version(text): None stands for InvalidVersion raised
VersionOf(s) == IF s.ver # None /\ ~s.junk THEN s.ver ELSE None

\* host timezone offsets east of UTC, in time units
TzOffsets == {-1, 0, 1}

\* datetime.fromtimestamp(ts / 1000).replace(tzinfo=utc): the naive local
\* wall-clock time of the instant, relabelled as UTC
TimestampGet(file_obj) ==
  IF file_obj.timestamp = <<>> THEN 0 ELSE file_obj.timestamp[1]

CondaDt(file_obj, offset) == TimestampGet(file_obj) + offset

\* ------------------------------------------------------------- helpers
SeqsUpTo(S, n) == UNION {[1..k -> S] : k \in 0..n}

Range(s) == {s[i] : i \in 1..Len(s)}

RECURSIVE SortedAsc(_)
\* sorted(keys, key=Version): ascending
SortedAsc(S) ==
  IF S = {} THEN <<>>
  ELSE LET m == CHOOSE x \in S : \A y \in S : ~VersionLess(y, x)
       IN <<m>> \o SortedAsc(S \ {m})

Reverse(s) == [i \in 1..Len(s) |-> s[Len(s) + 1 - i]]

NoMessage == <<>>

\* ------------------------------------------------ results and messages
NoResult == [kind |-> "none", matches |-> <<>>, message |-> NoMessage]

\* get_pypi returns a plain list: there is no message
ListResult(ms) == [kind |-> "list", matches |-> ms, message |-> NoMessage]

MatchesOption(ms, msg) == [kind |-> "MatchesOption", matches |-> ms, message |-> msg]

Raised(exc) == [kind |-> "raised", matches |-> <<>>, message |-> <<exc>>]

PackageMatch(p, v, dt, src) ==
  [package_name |-> p, version |-> v, datetime |-> dt, source |-> src]

pypi_baseurl == "https://pypi.org"

no_matches_msg(p) ==
  <<"No matches for", p, "available from requested conda channels">>

exit_status_msg(cmd, returncode) == <<cmd, "exited with status", returncode>>

CondaFailure_always_not_found(p, cmd, not_found, returncode) ==
  MatchesOption(<<>>, no_matches_msg(p))

\* conda.py lines 51-60: the subprocess exited with a non-zero status;
\* not_found: "PackagesNotFoundError" occurs in its stderr
CondaFailure(p, cmd, not_found, returncode) ==
  IF not_found THEN MatchesOption(<<>>, no_matches_msg(p))
  ELSE MatchesOption(<<>>, exit_status_msg(cmd, returncode))

\* ------------------------------------------- the decisions of the walk
IsYanked_never(file_obj) == FALSE

\* pypi.py line 57
IsYanked(file_obj) == file_obj.yanked

\* pypi.py line 61, conda.py line 98
TooLate(dt, w) == dt > w

\* pypi.py line 67, conda.py line 102
SkipPrerelease(version_obj, ms) == is_prerelease(version_obj) /\ ms # <<>>

StopWalk_never(version_obj) == FALSE

\* pypi.py line 75, conda.py line 110
StopWalk(version_obj) == ~is_prerelease(version_obj)

Skipped(ms) == [matches |-> ms, took |-> FALSE, stop |-> FALSE, raised |-> FALSE]

Taken(ms, m, version_obj) ==
  [matches |-> Append(ms, m), took |-> TRUE, stop |-> StopWalk(version_obj),
   raised |-> FALSE]

\* pypi.py lines 57-77: the body of the inner loop for one record
PypiVisit(p, w, file_obj, ms) ==
  LET dt == file_obj.upload_time
      version_obj == is_compatible(file_obj.filename)
  IN IF IsYanked(file_obj) THEN Skipped(ms)
     ELSE IF TooLate(dt, w) THEN Skipped(ms)
     ELSE IF version_obj = None THEN Skipped(ms)
     ELSE IF SkipPrerelease(version_obj, ms) THEN Skipped(ms)
     ELSE Taken(ms, PackageMatch(p, version_obj, dt, pypi_baseurl), version_obj)

\* conda.py lines 95-112: the body of the inner loop for one record
CondaVisit(p, w, offset, file_obj, ms) ==
  LET dt == CondaDt(file_obj, offset)
      version_obj == VersionOf(file_obj.version)
  IN IF TooLate(dt, w) THEN Skipped(ms)
     ELSE IF version_obj = None
       THEN [matches |-> ms, took |-> FALSE, stop |-> TRUE, raised |-> TRUE]
     ELSE IF SkipPrerelease(version_obj, ms) THEN Skipped(ms)
     ELSE Taken(ms, PackageMatch(p, version_obj, dt, file_obj.channel), version_obj)

\* get_matches has no return statement after its loops: when the walk ends
\* without a non-pre-release it returns None, whatever matches holds
get_matches_end(ms) == <<>>

CondaOption_always_message(p, returned) ==
  MatchesOption(returned, no_matches_msg(p))

\* conda.py lines 114-117
CondaOption(p, returned) ==
  IF returned # <<>> THEN MatchesOption(returned, NoMessage)
  ELSE MatchesOption(<<>>, no_matches_msg(p))

\* -------------------------------------- grouping, sorting (both resolvers)
PypiKey(p, file_obj) == VersionSearch(p, file_obj.filename)

CondaKey(file_obj) == VersionMatch(file_obj.version)

\* the key of every record, in source order (None: no key, warned)
PypiKeys(p, objs) == [i \in 1..Len(objs) |-> PypiKey(p, objs[i])]

CondaKeys(objs) == [i \in 1..Len(objs) |-> CondaKey(objs[i])]

Keys(ks) == Range(ks) \ {None}

RECURSIVE Pick(_, _, _, _)
\* the records whose key is k, in source order
Pick(objs, ks, k, i) ==
  IF i > Len(objs) THEN <<>>
  ELSE (IF ks[i] = k THEN <<objs[i]>> ELSE <<>>) \o Pick(objs, ks, k, i + 1)

Grouped(objs, ks) == [k \in Keys(ks) |-> Pick(objs, ks, k, 1)]

VersionStrs(ks) == Reverse(SortedAsc(Keys(ks)))

Warned(objs, ks) == Pick(objs, ks, None, 1)

\* ---------------------------------------------------------------- state
VARIABLES
  resolver,       \* "pypi" | "conda": which function is called
  package,        \* argument package
  when,           \* argument when (the cutoff)
  conda_command,  \* argument conda_command ("none" for get_pypi)
  tz,             \* the host's UTC offset (0 for get_pypi, which does not use it)
  status,         \* what the registry answered: "none" | "ok" | "not_found" | "error"
  file_objs,      \* the records the registry returned, in source order
  pc,             \* "start" | "group" | "walk" | "done"
  grouped,        \* key -> records of that key, in source order
  version_strs,   \* the keys, highest first
  vi, fi,         \* position of the walk: group index, record index
  matches,        \* the local list matches
  accepted,       \* the records the Matches were built from (history)
  warned,         \* the records warnings.warn was called for
  result,         \* what the call returned or raised
  runtime_tags,   \* is_compatible alone: what sys_tags() yields on the runtime
  filename,       \* is_compatible alone: file_obj["filename"]
  compat_pc,      \* "off" | "sdist" | "wheel" | "obsolete" | "done"
  compat_result,  \* what is_compatible returned
  tables,         \* cache.db: the tables that exist
  download,       \* cache.db: the rows of table download
  name_mapping,   \* cache.db: the rows of table name_mapping
  now,            \* the wall clock
  db_pc,          \* "off" | "exit" | "update_downloads" | "main" | "lookup"
  freshly_downloaded,  \* main's local: what update_downloads returned
  canonical_names \* main's local: what CanonicalNames.from_options returned

resolver_vars == <<resolver, package, when, conda_command, tz, status, file_objs, pc,
                   grouped, version_strs, vi, fi, matches, accepted, warned, result>>

compat_vars == <<runtime_tags, filename, compat_pc, compat_result>>

db_vars == <<tables, download, name_mapping, now, db_pc, freshly_downloaded,
             canonical_names>>

vars == <<resolver_vars, compat_vars, db_vars>>

\* is_compatible is not being examined by itself
CompatOff ==
  /\ runtime_tags = sys_tags
  /\ filename = NotAVersion
  /\ compat_pc = "off"
  /\ compat_result = NoResult

args == <<resolver, package, when, conda_command, tz>>

\* ------------------------------------------------- the cache (db.py)
MaxDay == 2

\* the wall clock: a day and an hour of that day
Hours == {0, 12}

Instants == {[day |-> d, hour |-> h] : d \in 0..MaxDay, h \in Hours}

NextInstant(t) ==
  IF t.hour = 0 THEN [day |-> t.day, hour |-> 12] ELSE [day |-> t.day + 1, hour |-> 0]

\* timedelta(days=1)
cache_lifetime == 1

\* line 31: cutoff = datetime.datetime.now() - asof.cache_lifetime
Cutoff(t) == [day |-> t.day - cache_lifetime, hour |-> t.hour]

\* datetime.isoformat(): "<date>T<time>", the text line 53 stores
isoformat(t) == <<t.day, "T", t.hour>>

\* the text sqlite3 binds for a datetime parameter: "<date> <time>"
adapt_datetime(t) == <<t.day, " ", t.hour>>

\* the space sorts before the letter T
CharOrd(c) == IF c = " " THEN 0 ELSE 1

\* SQL >= on TEXT: the comparison of the characters from the left
TextGeq(a, b) ==
  \/ a[1] > b[1]
  \/ a[1] = b[1] /\ CharOrd(a[2]) > CharOrd(b[2])
  \/ a[1] = b[1] /\ a[2] = b[2] /\ a[3] >= b[3]

\* asof.downloads: its one key and that request's URL
downloads == {"name_mapping"}

name_mapping_url == "https://github.com/regro/cf-graph-countyfair/raw/refs/heads/master/mappings/pypi/name_mapping.json"

\* what the URL can serve: two editions of the mapping
Contents == {"edition1", "edition2"}

HttpError == "HTTPError"

NameRow(c, i, p) == [conda_name |-> c, import_name |-> i, pypi_name |-> p]

\* lines 68-71: the rows of a downloaded text
json_loads(content) ==
  IF content = "edition1" THEN {NameRow("pytorch", "torch", "torch")}
  ELSE {NameRow("pytorch", "torch", "torch"), NameRow("pyyaml", "yaml", "PyYAML")}

DownloadRow(url, at, content) == [url |-> url, downloaded_at |-> at, content |-> content]

\* lines 34-40: the SELECT of a row of the URL not older than the cutoff
FreshRow(rows, url, t) ==
  \E r \in rows : r.url = url /\ TextGeq(r.downloaded_at, adapt_datetime(Cutoff(t)))

\* lines 49-54: DELETE and INSERT in one transaction
Replaced(rows, url, t, content) ==
  {r \in rows : r.url # url} \cup {DownloadRow(url, isoformat(t), content)}

\* lines 60-63: the rows of the URL a SELECT ... ORDER BY downloaded_at DESC
\* LIMIT 1 can return
Latest(rows, url) ==
  {r \in rows : /\ r.url = url
                /\ \A r2 \in rows :
                     r2.url = url => TextGeq(r.downloaded_at, r2.downloaded_at)}

\* canonical_names.py
CanonicalNames(c, p) == [conda_name |-> c, pypi_name |-> p]

NoNames == CanonicalNames("", "")

Queries == {"pytorch", "yaml", "PyYAML", "numpy"}

from_conda_name(table, q) ==
  IF \E r \in table : r.conda_name = q
  THEN CanonicalNames(q, (CHOOSE r \in table : r.conda_name = q).pypi_name)
  ELSE CanonicalNames(q, q)

from_import_name(table, q) ==
  IF \E r \in table : r.import_name = q
  THEN CanonicalNames((CHOOSE r \in table : r.import_name = q).conda_name,
                      (CHOOSE r \in table : r.import_name = q).pypi_name)
  ELSE CanonicalNames(q, q)

from_pypi_name(table, q) ==
  IF \E r \in table : r.pypi_name = q
  THEN CanonicalNames((CHOOSE r \in table : r.pypi_name = q).conda_name, q)
  ELSE CanonicalNames(q, q)

from_options(table, query_type, q) ==
  CASE query_type = "conda" -> from_conda_name(table, q)
    [] query_type = "import" -> from_import_name(table, q)
    [] OTHER -> from_pypi_name(table, q)

\* main is not being run
DbOff ==
  /\ tables = {}
  /\ download = {}
  /\ name_mapping = {}
  /\ now = [day |-> 0, hour |-> 0]
  /\ db_pc = "off"
  /\ freshly_downloaded = {}
  /\ canonical_names = NoNames

Init ==
  /\ resolver \in {"pypi", "conda"}
  /\ package \in Packages
  /\ when \in Times
  /\ conda_command \in (IF resolver = "conda" THEN {"mamba", "conda"} ELSE {"none"})
  /\ tz \in (IF resolver = "conda" THEN TzOffsets ELSE {0})
  /\ status = "none"
  /\ file_objs = <<>>
  /\ pc = "start"
  /\ grouped = <<>>
  /\ version_strs = <<>>
  /\ vi = 1
  /\ fi = 1
  /\ matches = <<>>
  /\ accepted = <<>>
  /\ warned = <<>>
  /\ result = NoResult
  /\ CompatOff
  /\ DbOff

\* the record the walk is at
Current == grouped[version_strs[vi]][fi]

\* the loops' next position after the record at (vi, fi)
Advance ==
  IF fi < Len(grouped[version_strs[vi]])
  THEN /\ fi' = fi + 1
       /\ vi' = vi
  ELSE /\ fi' = 1
       /\ vi' = vi + 1

\* ------------------------------------------------------------- get_pypi
\* lines 24-33: the HTTP request
PypiFetch ==
  /\ pc = "start"
  /\ resolver = "pypi"
  /\ \E st \in {"ok", "not_found", "error"} :
       /\ status' = st
       /\ CASE st = "not_found" ->
                 /\ result' = ListResult(<<>>)
                 /\ pc' = "done"
                 /\ UNCHANGED file_objs
            [] st = "error" ->
                 /\ result' = Raised("HTTPError")
                 /\ pc' = "done"
                 /\ UNCHANGED file_objs
            [] OTHER ->
                 /\ \E objs \in SeqsUpTo(PypiFiles, MaxLen) : file_objs' = objs
                 /\ pc' = "group"
                 /\ UNCHANGED result
  /\ UNCHANGED <<args, compat_vars, db_vars, grouped, version_strs, vi, fi, matches, accepted, warned>>

\* lines 37-50: grouping by version text, then the sort and the reverse
PypiGroup ==
  /\ pc = "group"
  /\ resolver = "pypi"
  /\ grouped' = Grouped(file_objs, PypiKeys(package, file_objs))
  /\ version_strs' = VersionStrs(PypiKeys(package, file_objs))
  /\ warned' = Warned(file_objs, PypiKeys(package, file_objs))
  /\ pc' = "walk"
  /\ UNCHANGED <<args, compat_vars, db_vars, status, file_objs, vi, fi, matches, accepted, result>>

\* lines 55-77: one iteration of the inner loop
PypiWalk ==
  /\ pc = "walk"
  /\ resolver = "pypi"
  /\ vi <= Len(version_strs)
  /\ LET r == PypiVisit(package, when, Current, matches)
     IN /\ matches' = r.matches
        /\ accepted' = IF r.took THEN Append(accepted, Current) ELSE accepted
        /\ IF r.stop
           THEN /\ result' = ListResult(r.matches)
                /\ pc' = "done"
                /\ UNCHANGED <<vi, fi>>
           ELSE /\ Advance
                /\ UNCHANGED <<pc, result>>
  /\ UNCHANGED <<args, compat_vars, db_vars, status, file_objs, grouped, version_strs, warned>>

\* line 79: the walk is over
PypiReturn ==
  /\ pc = "walk"
  /\ resolver = "pypi"
  /\ vi > Len(version_strs)
  /\ result' = ListResult(matches)
  /\ pc' = "done"
  /\ UNCHANGED <<args, compat_vars, db_vars, status, file_objs, grouped, version_strs, vi, fi, matches,
                 accepted, warned>>

\* ------------------------------------------------------------ get_conda
\* lines 32-67: the conda search subprocess
CondaSearch ==
  /\ pc = "start"
  /\ resolver = "conda"
  /\ \E st \in {"ok", "not_found", "error"} :
       /\ status' = st
       /\ CASE st = "not_found" ->
                 /\ result' = CondaFailure(package, conda_command, TRUE, 1)
                 /\ pc' = "done"
                 /\ UNCHANGED file_objs
            [] st = "error" ->
                 /\ result' = CondaFailure(package, conda_command, FALSE, 1)
                 /\ pc' = "done"
                 /\ UNCHANGED file_objs
            [] OTHER ->
                 /\ \E objs \in SeqsUpTo(CondaFiles, MaxLen) : file_objs' = objs
                 /\ pc' = "group"
                 /\ UNCHANGED result
  /\ UNCHANGED <<args, compat_vars, db_vars, grouped, version_strs, vi, fi, matches, accepted, warned>>

\* lines 71-84: grouping by version text, then the sort and the reverse
CondaGroup ==
  /\ pc = "group"
  /\ resolver = "conda"
  /\ grouped' = Grouped(file_objs, CondaKeys(file_objs))
  /\ version_strs' = VersionStrs(CondaKeys(file_objs))
  /\ warned' = Warned(file_objs, CondaKeys(file_objs))
  /\ pc' = "walk"
  /\ UNCHANGED <<args, compat_vars, db_vars, status, file_objs, vi, fi, matches, accepted, result>>

\* lines 92-112: one iteration of get_matches' inner loop; the return of
\* line 112 is followed by lines 114-115
CondaWalk ==
  /\ pc = "walk"
  /\ resolver = "conda"
  /\ vi <= Len(version_strs)
  /\ LET r == CondaVisit(package, when, tz, Current, matches)
     IN /\ matches' = r.matches
        /\ accepted' = IF r.took THEN Append(accepted, Current) ELSE accepted
        /\ IF r.raised
           THEN /\ result' = Raised("InvalidVersion")
                /\ pc' = "done"
                /\ UNCHANGED <<vi, fi>>
           ELSE IF r.stop
           THEN /\ result' = CondaOption(package, r.matches)
                /\ pc' = "done"
                /\ UNCHANGED <<vi, fi>>
           ELSE /\ Advance
                /\ UNCHANGED <<pc, result>>
  /\ UNCHANGED <<args, compat_vars, db_vars, status, file_objs, grouped, version_strs, warned>>

\* the end of get_matches' loops, then lines 114-117
CondaReturn ==
  /\ pc = "walk"
  /\ resolver = "conda"
  /\ vi > Len(version_strs)
  /\ result' = CondaOption(package, get_matches_end(matches))
  /\ pc' = "done"
  /\ UNCHANGED <<args, compat_vars, db_vars, status, file_objs, grouped, version_strs, vi, fi, matches,
                 accepted, warned>>

Next ==
  \/ PypiFetch
  \/ PypiGroup
  \/ PypiWalk
  \/ PypiReturn
  \/ CondaSearch
  \/ CondaGroup
  \/ CondaWalk
  \/ CondaReturn

Spec == Init /\ [][Next]_vars

\* -------------------------------------------------- is_compatible alone
\* no resolver is running
ResolverOff ==
  /\ resolver = "pypi"
  /\ package = "foo"
  /\ when = 0
  /\ conda_command = "none"
  /\ tz = 0
  /\ status = "none"
  /\ file_objs = <<>>
  /\ pc = "off"
  /\ grouped = <<>>
  /\ version_strs = <<>>
  /\ vi = 1
  /\ fi = 1
  /\ matches = <<>>
  /\ accepted = <<>>
  /\ warned = <<>>
  /\ result = NoResult

InitCompat ==
  /\ ResolverOff
  /\ runtime_tags \in Runtimes
  /\ filename \in CompatFilenames
  /\ compat_pc = "sdist"
  /\ compat_result = NoResult
  /\ DbOff

\* lines 88-93: try parse_sdist_filename
CompatSdist ==
  /\ compat_pc = "sdist"
  /\ IF parse_sdist_filename(filename) # None
       THEN /\ compat_result' = parse_sdist_filename(filename)
            /\ compat_pc' = "done"
       ELSE /\ compat_pc' = "wheel"
            /\ UNCHANGED compat_result
  /\ UNCHANGED <<resolver_vars, db_vars, runtime_tags, filename>>

\* lines 95-102: try parse_wheel_filename and look for a supported tag
CompatWheel ==
  /\ compat_pc = "wheel"
  /\ IF parse_wheel_filename(filename) # None
       THEN /\ compat_result' = IF TagSupported(runtime_tags, filename)
                                  THEN parse_wheel_filename(filename)
                                  ELSE None
            /\ compat_pc' = "done"
       ELSE /\ compat_pc' = "obsolete"
            /\ UNCHANGED compat_result
  /\ UNCHANGED <<resolver_vars, db_vars, runtime_tags, filename>>

\* lines 104-105: neither an sdist nor a wheel
CompatObsolete ==
  /\ compat_pc = "obsolete"
  /\ compat_result' = None
  /\ compat_pc' = "done"
  /\ UNCHANGED <<resolver_vars, db_vars, runtime_tags, filename>>

NextCompat ==
  \/ CompatSdist
  \/ CompatWheel
  \/ CompatObsolete

SpecCompat == InitCompat /\ [][NextCompat]_vars

\* ------------------------------------------------- the runs of main
\* no cache.db yet, no process running
InitDb ==
  /\ ResolverOff
  /\ CompatOff
  /\ tables = {}
  /\ download = {}
  /\ name_mapping = {}
  /\ now = [day |-> 0, hour |-> 0]
  /\ db_pc = "exit"
  /\ freshly_downloaded = {}
  /\ canonical_names = NoNames

\* __main__.py line 18 of a new run: CREATE TABLE IF NOT EXISTS, one transaction
initialize_db ==
  /\ db_pc = "exit"
  /\ tables' = tables \cup {"download", "name_mapping"}
  /\ freshly_downloaded' = {}
  /\ canonical_names' = NoNames
  /\ db_pc' = "update_downloads"
  /\ UNCHANGED <<resolver_vars, compat_vars, download, name_mapping, now>>

\* __main__.py line 19: a fresh row is kept; otherwise the text is fetched
\* and replaces the URL's rows, or the request fails and the run ends
update_downloads ==
  /\ db_pc = "update_downloads"
  /\ IF FreshRow(download, name_mapping_url, now)
       THEN /\ freshly_downloaded' = {}
            /\ db_pc' = "main"
            /\ UNCHANGED download
       ELSE \E resp \in Contents \cup {HttpError} :
              IF resp = HttpError
              THEN /\ db_pc' = "exit"
                   /\ UNCHANGED <<download, freshly_downloaded>>
              ELSE /\ download' = Replaced(download, name_mapping_url, now, resp)
                   /\ freshly_downloaded' = downloads
                   /\ db_pc' = "main"
  /\ UNCHANGED <<resolver_vars, compat_vars, tables, name_mapping, now, canonical_names>>

\* __main__.py lines 20-21 with a new download: populate_name_mapping_table
populate_name_mapping_table ==
  /\ db_pc = "main"
  /\ "name_mapping" \in freshly_downloaded
  /\ IF Latest(download, name_mapping_url) = {}
       THEN /\ db_pc' = "exit"
            /\ UNCHANGED name_mapping
       ELSE \E fetched \in Latest(download, name_mapping_url) :
              /\ name_mapping' = json_loads(fetched.content)
              /\ db_pc' = "lookup"
  /\ UNCHANGED <<resolver_vars, compat_vars, tables, download, now,
                 freshly_downloaded, canonical_names>>

\* __main__.py line 20 without a new download: the table is left as it is
KeepNameMapping ==
  /\ db_pc = "main"
  /\ "name_mapping" \notin freshly_downloaded
  /\ db_pc' = "lookup"
  /\ UNCHANGED <<resolver_vars, compat_vars, tables, download, name_mapping, now,
                 freshly_downloaded, canonical_names>>

\* the process ends after update_downloads returned and before
\* populate_name_mapping_table committed
Abort ==
  /\ db_pc = "main"
  /\ db_pc' = "exit"
  /\ UNCHANGED <<resolver_vars, compat_vars, tables, download, name_mapping, now,
                 freshly_downloaded, canonical_names>>

\* __main__.py line 23: the name lookup; the run then ends
Lookup ==
  /\ db_pc = "lookup"
  /\ \E query_type \in {"conda", "import", "pypi"} : \E q \in Queries :
       canonical_names' = from_options(name_mapping, query_type, q)
  /\ db_pc' = "exit"
  /\ UNCHANGED <<resolver_vars, compat_vars, tables, download, name_mapping, now,
                 freshly_downloaded>>

\* half a day passes between two runs
Tick ==
  /\ db_pc = "exit"
  /\ NextInstant(now) \in Instants
  /\ now' = NextInstant(now)
  /\ UNCHANGED <<resolver_vars, compat_vars, tables, download, name_mapping, db_pc,
                 freshly_downloaded, canonical_names>>

NextDb ==
  \/ initialize_db
  \/ update_downloads
  \/ populate_name_mapping_table
  \/ KeepNameMapping
  \/ Abort
  \/ Lookup
  \/ Tick

SpecDb == InitDb /\ [][NextDb]_vars

\* ------------------------------------------ the resolvers as functions
RECURSIVE Concat(_, _, _)
\* the records in the order the two nested loops visit them
Concat(g, keys, i) ==
  IF i > Len(keys) THEN <<>> ELSE g[keys[i]] \o Concat(g, keys, i + 1)

WalkOrder(objs, ks) == Concat(Grouped(objs, ks), VersionStrs(ks), 1)

RECURSIVE PypiRun(_, _, _, _, _)
PypiRun(p, w, order, i, ms) ==
  IF i > Len(order) THEN ListResult(ms)
  ELSE LET r == PypiVisit(p, w, order[i], ms)
       IN IF r.stop THEN ListResult(r.matches)
          ELSE PypiRun(p, w, order, i + 1, r.matches)

\* get_pypi on a fetched record list
get_pypi(w, p, objs) ==
  PypiRun(p, w, WalkOrder(objs, PypiKeys(p, objs)), 1, <<>>)

RECURSIVE CondaRun(_, _, _, _, _, _)
CondaRun(p, w, offset, order, i, ms) ==
  IF i > Len(order) THEN CondaOption(p, get_matches_end(ms))
  ELSE LET r == CondaVisit(p, w, offset, order[i], ms)
       IN IF r.raised THEN Raised("InvalidVersion")
          ELSE IF r.stop THEN CondaOption(p, r.matches)
          ELSE CondaRun(p, w, offset, order, i + 1, r.matches)

\* get_conda on a parsed record list
get_conda(w, p, offset, objs) ==
  CondaRun(p, w, offset, WalkOrder(objs, CondaKeys(objs)), 1, <<>>)

\* ------------------------------------------------- vocabulary of the claims
Finished == pc = "done"

Returned == result.kind \in {"list", "MatchesOption"}

\* the instant a record was published, on the UTC time line
PublishTime(o) == IF resolver = "pypi" THEN o.upload_time ELSE TimestampGet(o)

\* the time the code compares with the cutoff
ComparedTime(o) == IF resolver = "pypi" THEN o.upload_time ELSE CondaDt(o, tz)

\* the version a record carries, None when it has none or is incompatible
RecordVersion(o) ==
  IF resolver = "pypi" THEN is_compatible(o.filename) ELSE VersionOf(o.version)

NotYanked(o) == IF resolver = "pypi" THEN ~o.yanked ELSE TRUE

Qualifies(o) == NotYanked(o) /\ PublishTime(o) <= when /\ RecordVersion(o) # None

Qualifying == {o \in Range(file_objs) : Qualifies(o)}

StableQualifying == {o \in Qualifying : ~is_prerelease(RecordVersion(o))}

MaxVersion(S) ==
  CHOOSE v \in {RecordVersion(o) : o \in S} :
    \A o \in S : Rank(RecordVersion(o)) <= Rank(v)

PreIdx(ms) == {i \in 1..Len(ms) : is_prerelease(ms[i].version)}

StableIdx(ms) == {i \in 1..Len(ms) : ~is_prerelease(ms[i].version)}

\* the version text of the record parses as a version
WellFormed(o) ==
  IF resolver = "pypi" THEN o.filename.ver # None ELSE VersionOf(o.version) # None

Remove(s, i) == [j \in 1..(Len(s) - 1) |-> IF j < i THEN s[j] ELSE s[j + 1]]

Resolve(objs) ==
  IF resolver = "pypi" THEN get_pypi(when, package, objs)
  ELSE get_conda(when, package, tz, objs)

\* ------------------------------------------------------------------ C1
\* C1: whenever at least one record qualifies (not yanked, published at or
\* before the cutoff, compatible) with a non-pre-release version, the result
\* holds exactly one non-pre-release Match, and its version is the maximum
\* over the qualifying non-pre-release records.
C1_StableIsMaximum ==
  (Finished /\ status = "ok" /\ StableQualifying # {})
    => /\ Returned
       /\ Cardinality(StableIdx(result.matches)) = 1
       /\ \A i \in StableIdx(result.matches) :
            result.matches[i].version = MaxVersion(StableQualifying)

\* ------------------------------------------------------------------ C2
\* C2: every record a Match was built from was published at or before the
\* cutoff, and the walk excludes a record for its time exactly when the
\* record was published strictly after the cutoff.
C2_CutoffRespected ==
  /\ \A i \in 1..Len(accepted) : PublishTime(accepted[i]) <= when
  /\ (pc = "walk" /\ vi <= Len(version_strs))
       => (TooLate(ComparedTime(Current), when) <=> PublishTime(Current) > when)

\* ------------------------------------------------------------------ C3
\* C3: get_pypi builds no Match from a yanked record, every Match carries the
\* version and upload time of the record it was built from, and a yanked
\* record does not keep a qualifying record from being returned: if some
\* record qualifies the result is not empty.
C3_NoYankedMatch ==
  resolver = "pypi"
    => /\ Len(matches) = Len(accepted)
       /\ \A i \in 1..Len(accepted) :
            /\ ~accepted[i].yanked
            /\ matches[i].version = is_compatible(accepted[i].filename)
            /\ matches[i].datetime = accepted[i].upload_time
       /\ (Finished /\ status = "ok") => result = ListResult(matches)
       /\ (Finished /\ status = "ok" /\ Qualifying # {}) => result.matches # <<>>

\* a yanked record of version 2.0 and a lower qualifying record, which is returned
C3_Witness ==
  /\ Finished
  /\ resolver = "pypi"
  /\ Len(result.matches) = 1
  /\ result.matches[1].version = V(1, "final")
  /\ \E o \in Range(file_objs) :
       /\ o.yanked
       /\ o.upload_time <= when
       /\ is_compatible(o.filename) = V(2, "final")

\* ------------------------------------------------------------------ C4
\* C4: in get_pypi, if some record qualifies and every qualifying record is a
\* pre-release, the result is exactly one Match, of the highest qualifying
\* version.
C4_PrereleaseFallback ==
  (Finished /\ resolver = "pypi" /\ status = "ok"
     /\ Qualifying # {} /\ StableQualifying = {})
    => /\ Len(result.matches) = 1
       /\ result.matches[1].version = MaxVersion(Qualifying)

\* ------------------------------------------------------------------ C5
\* C5: in get_conda, when the walk ends without accepting a non-pre-release,
\* the accumulated pre-release Match is returned in a MatchesOption with no
\* message.
C5_CondaPrereleaseReturned ==
  (Finished /\ resolver = "conda" /\ status = "ok" /\ Returned
     /\ vi > Len(version_strs) /\ matches # <<>>)
    => result = MatchesOption(matches, NoMessage)

\* ------------------------------------------------------------------ C6
\* C6: resolving with no records to consider (an empty list, or a package the
\* registry does not know) yields an empty match list and a diagnostic
\* message; for get_conda the message is the no-matches message.
C6_EmptyHasMessage ==
  (Finished /\ (status = "not_found" \/ (status = "ok" /\ file_objs = <<>>)))
    => /\ result.matches = <<>>
       /\ result.message # NoMessage
       /\ resolver = "conda" => result.message = no_matches_msg(package)

\* ------------------------------------------------------------------ C7
\* C7: every MatchesOption get_conda returns has message None exactly when
\* its match list is not empty.
C7_MessageIffEmpty ==
  (resolver = "conda" /\ result.kind = "MatchesOption")
    => (result.message = NoMessage <=> result.matches # <<>>)

\* get_conda returned a Match
C7_Witness ==
  /\ Finished
  /\ resolver = "conda"
  /\ result.kind = "MatchesOption"
  /\ result.matches # <<>>
  /\ result.message = NoMessage

\* ------------------------------------------------------------------ C8
\* C8: no resolver raises because of a record whose version text does not
\* parse, and the result equals the result for the list without that record.
C8_MalformedSkipped ==
  (Finished /\ status = "ok")
    => /\ result.kind # "raised"
       /\ \A i \in 1..Len(file_objs) :
            ~WellFormed(file_objs[i]) => result = Resolve(Remove(file_objs, i))

\* ------------------------------------------------------------------ C9
\* C9: a pre-release Match is the first Match of the walk, so a result holds
\* at most one, and a pre-release Match beside a non-pre-release Match has
\* the strictly higher version.
C9_PrereleaseAbove ==
  /\ PreIdx(matches) \subseteq {1}
  /\ \A i \in PreIdx(result.matches) : \A j \in StableIdx(result.matches) :
       Rank(result.matches[i].version) > Rank(result.matches[j].version)

\* ----------------------------------------------------------------- C10
MatchShape(ms) ==
  /\ Len(ms) <= 2
  /\ \A i \in StableIdx(ms) : i = Len(ms)
  /\ \A i \in PreIdx(ms) : i = 1

\* C10: the walk is over as soon as a non-pre-release Match is accepted: while
\* the walk goes on no Match is a non-pre-release, and the Matches are at most
\* one pre-release followed by at most one non-pre-release, which is last.
C10_EarlyTermination ==
  /\ pc = "walk" => StableIdx(matches) = {}
  /\ StableIdx(matches) # {} => (Finished /\ result.matches = matches)
  /\ MatchShape(matches)
  /\ MatchShape(result.matches)

\* a non-pre-release was accepted and a record after it was never visited
C10_Witness ==
  /\ Finished
  /\ StableIdx(result.matches) # {}
  /\ ~(vi = Len(version_strs) /\ fi = Len(grouped[version_strs[vi]]))

\* ----------------------------------------------------------------- C11
\* C11: get_conda takes a record's publish time to be the UTC instant of its
\* timestamp, whatever the host's timezone: that instant is stored in the
\* Match and compared with the cutoff, and a record without a timestamp
\* counts as published at the epoch, so no cutoff at or after the epoch
\* excludes it.
C11_CondaUtcTime ==
  resolver = "conda"
    => /\ \A i \in 1..Len(accepted) :
            matches[i].datetime = TimestampGet(accepted[i])
       /\ (pc = "walk" /\ vi <= Len(version_strs))
            => /\ TooLate(CondaDt(Current, tz), when)
                    <=> TimestampGet(Current) > when
               /\ (Current.timestamp = <<>> /\ when >= 0)
                    => ~TooLate(CondaDt(Current, tz), when)

\* ----------------------------------------------------------------- C13
\* C13: when the conda search exits with a non-zero status no record is
\* parsed; if stderr names PackagesNotFoundError the result is the ordinary
\* empty no-matches result, and otherwise the caller gets an empty result
\* whose message is neither absent nor a no-matches message.
C13_CondaExitStatus ==
  (resolver = "conda" /\ status \in {"not_found", "error"})
    => /\ Finished
       /\ file_objs = <<>>
       /\ grouped = <<>>
       /\ version_strs = <<>>
       /\ matches = <<>>
       /\ result.kind = "MatchesOption"
       /\ result.matches = <<>>
       /\ status = "not_found" => result.message = no_matches_msg(package)
       /\ status = "error"
            => result.message \notin ({NoMessage} \cup {no_matches_msg(p) : p \in Packages})

\* the conda search failed for another reason than a missing package
C13_Witness ==
  /\ Finished
  /\ resolver = "conda"
  /\ status = "error"
  /\ result.message = exit_status_msg(conda_command, 1)

\* ----------------------------------------------------------------- C14
\* C14: in get_pypi the key of the group a compatible record is in denotes
\* the version is_compatible extracts from its filename, so the Matches are
\* appended in descending order of their versions.
C14_KeyIsVersion ==
  resolver = "pypi"
    => /\ (pc = "walk" /\ vi <= Len(version_strs)
             /\ is_compatible(Current.filename) # None)
            => version_strs[vi] = is_compatible(Current.filename)
       /\ \A i \in 1..Len(matches) : \A j \in 1..Len(matches) :
            i < j => Rank(matches[i].version) >= Rank(matches[j].version)

\* ----------------------------------------------------------------- C12
\* C12: is_compatible returns the parsed version for every valid sdist
\* filename on every runtime; for a valid wheel filename it returns the
\* version if and only if one of the wheel's tags is among the runtime's
\* supported tags, and None otherwise; for a filename that is neither it
\* returns None, and it never raises.
ValidSdist(f) == f.ext = "tar.gz" /\ f.ver # None

ValidWheel(f) == f.ext = "whl" /\ f.ver # None

C12_IsCompatible ==
  compat_pc = "done"
    => /\ compat_result = IsCompatibleOn(runtime_tags, filename)
       /\ compat_result \in {filename.ver, None}
       /\ ValidSdist(filename) => compat_result = filename.ver
       /\ ValidWheel(filename)
            => (compat_result = filename.ver
                  <=> WheelTags(filename.tag) \cap Range(runtime_tags) # {})
       /\ (~ValidSdist(filename) /\ ~ValidWheel(filename)) => compat_result = None

\* a wheel of two tags, one of them supported by the PyPy runtime, is compatible
C12_Witness ==
  /\ compat_pc = "done"
  /\ ValidWheel(filename)
  /\ filename.tag = "py2.pp39"
  /\ runtime_tags = <<"pp39", "py3">>
  /\ compat_result = filename.ver

\* ----------------------------------------------------------------- C15
\* C15: at the start of every name lookup, if table download has a row for
\* the name-mapping URL that is younger than cache_lifetime, table
\* name_mapping holds exactly the rows of that row's content; and download
\* never has more than one row for the URL.
Younger(r, t) ==
  \/ r.downloaded_at[1] > Cutoff(t).day
  \/ r.downloaded_at[1] = Cutoff(t).day /\ r.downloaded_at[3] > Cutoff(t).hour

C15_CacheCoherent ==
  /\ db_pc = "lookup"
       => \A r \in download :
            (r.url = name_mapping_url /\ Younger(r, now))
              => name_mapping = json_loads(r.content)
  /\ Cardinality({r \in download : r.url = name_mapping_url}) <= 1

====
